---- MODULE Spec2Model ----
(***************************************************************************)
(* Resilient data-access and caching layer of the reporting service:       *)
(* DatabaseManager (services/database_manager.py) with its circuit         *)
(* breaker, and CacheManager (services/cache_manager.py).                  *)
(*                                                                         *)
(* Worker threads call the DatabaseManager's operations concurrently.  An  *)
(* operation is cut into steps at the points where another thread can run  *)
(* between two accesses of the shared attributes: blocking engine calls,   *)
(* and the read and the write of every read-modify-write of a counter      *)
(* (the code holds no lock).  The interleavings explored are those with at *)
(* most MaxSwitches preemptions of an operation in flight.                 *)
(***************************************************************************)
EXTENDS Integers, Sequences, FiniteSets, TLC

\* ------------------------------------------------------------------ bounds
MaxThreshold == 3
MaxTimeout == 1
MaxExtraCalls == 2
MaxSwitches == 1
MaxOverlapCalls == 3
MaxSlow == 1
NumWorkers == 2

Workers == 1..NumWorkers

\* self.last_failure_time is None
NoTime == -1

ConnOps == {"execute_query", "execute_update", "transaction", "get_connection"}
ProbeOps == {"is_connected", "get_stats"}
Ops == ConnOps \cup ProbeOps

\* How the environment answers the constructor: the configured DB_TYPE, the
\* MYSQL_AVAILABLE import flag, and the outcome of pool creation / SELECT 1.
Boots == {"sqlite_configured", "driver_missing", "pool_error",
          "test_query_error", "mysql_ok"}
FallbackBoots == {"driver_missing", "pool_error", "test_query_error"}
NormalBoots == Boots \ FallbackBoots

NoStats == [db_type |-> "none", connected |-> FALSE, circuit_open |-> FALSE,
            failure_count |-> 0, queries_executed |-> 0, slow_queries |-> 0,
            errors |-> 0]

VARIABLES
    boot,               \* environment met by the constructor
    db_type,            \* self.db_type
    pool,               \* self.pool is not None
    failure_threshold,  \* self.failure_threshold
    circuit_timeout,    \* self.circuit_timeout
    circuit_open,       \* self.circuit_open
    failure_count,      \* self.failure_count
    since_failure,      \* time.time() - self.last_failure_time (NoTime: it is None)
    queries_executed,   \* self.queries_executed
    slow_queries,       \* self.slow_queries
    errors,             \* self.errors
    pc,                 \* position of each worker in its operation
    op,                 \* operation each worker runs
    conn,               \* engine of the connection a worker holds ("none")
    exc,                \* exception in flight in a worker
    tmp,                \* value a worker has loaded and not yet stored
    tx,                 \* what the worker did to its connection's transaction
    result,             \* outcome of the operation, once done
    stats,              \* dict returned by get_stats
    calls,              \* operations started so far
    running,            \* worker that took the last step (0: none in flight)
    preempt_left,       \* preemptions the schedule may still make
    \* history variables
    engine,             \* engine the current call of a worker has contacted
    in_window,          \* the call began, and has stayed, inside the open window
    probe,              \* worker whose check tentatively closed the breaker
    run,                \* recorded failures since the last success or reset
    overlapped          \* an operation has run while another was in flight

confvars == <<boot, db_type, pool, failure_threshold, circuit_timeout>>
breakervars == <<circuit_open, failure_count, since_failure>>
metricvars == <<queries_executed, slow_queries, errors>>
workervars == <<pc, op, conn, exc, tmp, tx, result, stats>>
schedvars == <<calls, running, preempt_left>>
histvars == <<engine, in_window, probe, run, overlapped>>

dbvars == <<confvars, breakervars, metricvars, workervars, schedvars, histvars>>

\* ------------------------------------------------------- CacheManager state

\* Bound on the number of calls made directly on the CacheManager.
MaxCacheCalls == 4

\* No date given (date_range is None).
NoDate == -1

\* Periods of the keys that clients other than the ReportService use.
KeyPeriods == {"semana", "mes"}

\* _generate_cache_key: the prefix followed by a hash of the keyword
\* arguments; the hash is written as the arguments themselves.
generate_cache_key(prefix, period, start, end) ==
    [prefix |-> prefix, period |-> period, start |-> start, end |-> end]

Keys ==
    {generate_cache_key("report:sales", p, NoDate, NoDate) :
        p \in {"dia", "semana", "mes", "trimestre", "año", "personalizado"}}

DirectKeys == {k \in Keys : k.period \in KeyPeriods}

NoKey == [prefix |-> "none"]

\* Python values handed to set(): two dicts, a tuple, a set and a dict that
\* contains itself.
Values == {[type |-> "dict", total |-> 1], [type |-> "dict", total |-> 2],
           [type |-> "tuple", total |-> 1], [type |-> "set", total |-> 1],
           [type |-> "circular"]}

\* How the construction of the CacheManager went.
CacheBoots == {"disabled", "redis_missing", "ping_error", "redis_ok"}

\* Glob patterns handed to delete_pattern.
Patterns == {"report:*", "session:*"}

Absent == [type |-> "absent"]
None == [type |-> "NoneType"]
Bool(b) == [type |-> "bool", value |-> b]
Number(n) == [type |-> "int", value |-> n]
Raise(e) == [type |-> "raise", exc |-> e]
Str(t) == [type |-> "str", text |-> t]
NoCall == [op |-> "none", key |-> NoKey, value |-> None, ret |-> None,
           remote |-> FALSE]

VARIABLES
    enabled,               \* self.enabled
    redis_client,          \* self.redis_client is not None
    redis,                 \* the remote store: key -> JSON text or Absent
    memory_cache,          \* self.memory_cache: key -> value or Absent
    cache_circuit_open,    \* CacheManager.circuit_open
    cache_failure_count,   \* CacheManager.failure_count
    cache_since_failure,   \* time since the last failure of the remote store
    hits,
    misses,
    sets,
    cache_calls,           \* number of calls made directly on the cache
    last,                  \* the latest call on the cache or event of the store
    prev                   \* the one before it

cachevars == <<enabled, redis_client, redis, memory_cache, cache_circuit_open,
               cache_failure_count, cache_since_failure, hits, misses, sets,
               cache_calls, last, prev>>

\* ------------------------------------------------------ ReportService state

\* Bound on the number of generate_report calls.
MaxReportCalls == 2

\* The day the service is started on, and how many midnights pass.
FirstDay == 1000
MaxDays == 1

ReportTypes == {"ventas", "productos", "clientes", "revenue_categoria",
                "ventas_horarias", "resumen"}

Periods == {"dia", "semana", "mes", "trimestre", "año", "personalizado"}

\* date_range of a request: none, or one valid range (start <= end).
DateRanges == {<<NoDate, NoDate>>, <<FirstDay - 3, FirstDay - 1>>}

ValidationError == Raise("ValidationError")

\* What a client sends: a report type (one of them outside the enum), a
\* period, and a date_range that is left out, null, or an object holding the
\* bounds it holds (NoDate for a bound that is missing).
RequestInputs ==
    [report_type : ReportTypes \cup {"inventario"},
     period : Periods,
     date_range : {"omitted", "null", "object"},
     start : {NoDate, FirstDay - 3, FirstDay - 1},
     end : {NoDate, FirstDay - 3, FirstDay - 1}]

\* DateRangeFilter(start_date, end_date): both fields are required, and
\* validate_date_range rejects end_date < start_date.
DateRangeFilter(start, end) ==
    IF start = NoDate \/ end = NoDate THEN ValidationError
    ELSE IF end < start THEN ValidationError
    ELSE [type |-> "range", start |-> start, end |-> end]

\* ReportRequest.validate_custom_period(v, info), the validator of date_range
validate_custom_period(v, period) ==
    IF period = "personalizado" /\ v.type = "NoneType"
    THEN ValidationError ELSE v

\* ReportRequest(**request_data): the validated request, or ValidationError.
\* A field validator runs on a value that was given, never on the default
\* of a field that was left out.
ReportRequest(i) ==
    LET date_range ==
            CASE i.date_range = "omitted" -> None
              [] i.date_range = "null" -> validate_custom_period(None, i.period)
              [] OTHER ->
                    LET v == DateRangeFilter(i.start, i.end)
                    IN  IF v.type = "raise" THEN v
                        ELSE validate_custom_period(v, i.period)
    IN  IF i.report_type \notin ReportTypes THEN ValidationError
        ELSE IF date_range.type = "raise" THEN date_range
        ELSE [report_type |-> i.report_type, period |-> i.period,
              start |-> IF date_range.type = "range" THEN date_range.start
                        ELSE NoDate,
              end |-> IF date_range.type = "range" THEN date_range.end
                      ELSE NoDate]

\* The requests made, each one a request that was constructed: every period
\* for the products report, the default and the custom period for the other
\* report types, with the date ranges of DateRanges.
Requests ==
    {r \in {ReportRequest(i) : i \in RequestInputs} :
        /\ r # ValidationError
        /\ <<r.start, r.end>> \in DateRanges
        /\ r.report_type = "productos" \/ r.period \in {"semana", "personalizado"}}

NoRequest == [report_type |-> "none", period |-> "none", start |-> NoDate,
              end |-> NoDate]

VARIABLES
    today,          \* datetime.now().date(), as a day number
    rpc,            \* position of the generate_report call in progress
    req,            \* its request
    rday,           \* the day it was made on
    rkey,           \* cache_key of get_sales_report
    rrange,         \* what _get_date_range returned
    renv,           \* the envelope built from the query result
    rresult,        \* what generate_report returned or raised
    nqueries,       \* execute_query calls made by the call in progress
    report_calls,   \* number of generate_report calls made so far
    rprev,          \* the previous call: its request, day and result
    rid,            \* the dict object in renv / rresult: the call that made it
    mem_id          \* the dict object held by memory_cache under each key

reportvars == <<today, rpc, req, rday, rkey, rrange, renv, rresult, nqueries,
                report_calls, rprev, rid, mem_id>>

\* ---------------------------------------------------------------- helpers
\* The pure helpers of ReportService, each applied to an input of its own.

\* Largest identifier and amount given in a filter.
MaxId == 1
MaxAmount == 2

\* OrderStatus values given in a filter
Statuses == {"COMPLETADO"}

OptionalNumber(S) == {None} \cup {Number(n) : n \in S}

\* request.filters: None, or a ReportFilters that passed its validation
\* (amounts >= 0, max_amount not below min_amount).
FilterInputs ==
    {None} \cup
    {f \in [type : {"filters"},
            customer_id : OptionalNumber(0..MaxId),
            product_id : OptionalNumber(0..MaxId),
            category_id : OptionalNumber(0..MaxId),
            status : {None} \cup {Str(t) : t \in Statuses},
            min_amount : OptionalNumber(0..MaxAmount),
            max_amount : OptionalNumber(0..MaxAmount)] :
        (f.max_amount # None /\ f.min_amount # None)
            => f.max_amount.value >= f.min_amount.value}

\* base_query, as the sequence of its parts
BaseQueries == {<<"SELECT * FROM pedidos_pedido p">>,
                <<"SELECT * FROM pedidos_pedido p", "WHERE", "p.activo = 1">>}

\* Rows of the sales query: at most MaxRows days, each with a total of up to
\* MaxHundreds hundreds over 1..MaxRowOrders orders (COUNT(*) of a group).
MaxRows == 2
MaxHundreds == 2
MaxRowOrders == 3

SalesRows == [total_ventas : {100 * k : k \in 0..MaxHundreds},
              numero_pedidos : 1..MaxRowOrders]

RowSeqs == UNION {[1..n -> SalesRows] : n \in 0..MaxRows}

VARIABLES
    fquery,         \* base_query given to _apply_filters
    ffilters,       \* request.filters given to _apply_filters
    fret,           \* what _apply_filters returned
    srows,          \* rows the sales query returned
    sret            \* the totals get_sales_report computed from them

purevars == <<fquery, ffilters, fret, srows, sret>>

\* ---------------------------------------------------------------- legacy app
\* GET /api/reportes of app.py, served by reports.py over db.py.

MaxLegacyCalls == 2

\* The periodo argument: the three known values and an unknown one.
LegacyPeriods == {"semana", "mes", "año", "hoy"}

\* The three reports in the order the endpoint builds them
LegacyReports == <<"ventas", "productos_mas_vendidos", "pedidos_por_cliente">>

NoData == [r \in {LegacyReports[i] : i \in 1..Len(LegacyReports)} |-> "unset"]

VARIABLES
    ldb_type,       \* app.config['DB_TYPE']
    lpc,            \* position of the request: idle, 1..3 (the report being built), done
    lperiodo,       \* request.args.get('periodo', 'semana')
    lstart,         \* days before now of get_start_date(periodo)
    lconn,          \* g.db, the connection of the request
    ldata,          \* the data dict being built
    lerrors,        \* database failures met while the request is served
    lstatus,        \* HTTP status of the response
    lbody,          \* its JSON body
    lcalls          \* requests served so far

legacyvars == <<ldb_type, lpc, lperiodo, lstart, lconn, ldata, lerrors,
                lstatus, lbody, lcalls>>

sidevars == <<purevars, legacyvars>>

vars == <<dbvars, cachevars, reportvars, sidevars>>

\* --------------------------------------------------------- construction

\* DatabaseManager._initialize_sqlite: sets sqlite_path, touches no engine.
initialize_sqlite(p) == [db_type |-> "sqlite", pool |-> p]

initialize_mysql_pool_KeepsMySQL(b) ==
    IF b = "driver_missing" THEN initialize_sqlite(FALSE)
    ELSE IF b = "pool_error" THEN initialize_sqlite(FALSE)
    ELSE [db_type |-> "mysql", pool |-> TRUE]

\* DatabaseManager._initialize_mysql_pool
initialize_mysql_pool(b) ==
    IF b = "driver_missing" THEN initialize_sqlite(FALSE)
    ELSE IF b = "pool_error" THEN initialize_sqlite(FALSE)
    ELSE IF b = "test_query_error" THEN initialize_sqlite(TRUE)
    ELSE [db_type |-> "mysql", pool |-> TRUE]

\* DatabaseManager._initialize_connection, on config.DB_TYPE
initialize_connection(b) ==
    IF b = "sqlite_configured" THEN initialize_sqlite(FALSE)
    ELSE initialize_mysql_pool(b)

\* DatabaseManager.__init__, for the boots in B, with a schedule that may
\* preempt an operation in flight n times
DBInitial(B, n) ==
    /\ boot \in B
    /\ db_type = initialize_connection(boot).db_type
    /\ pool = initialize_connection(boot).pool
    /\ circuit_open = FALSE
    /\ failure_count = 0
    /\ failure_threshold \in 1..MaxThreshold
    /\ circuit_timeout \in 1..MaxTimeout
    /\ since_failure = NoTime
    /\ queries_executed = 0
    /\ slow_queries = 0
    /\ errors = 0
    /\ pc = [w \in Workers |-> "idle"]
    /\ op = [w \in Workers |-> "none"]
    /\ conn = [w \in Workers |-> "none"]
    /\ exc = [w \in Workers |-> "none"]
    /\ tmp = [w \in Workers |-> 0]
    /\ tx = [w \in Workers |-> "none"]
    /\ result = [w \in Workers |-> "none"]
    /\ stats = [w \in Workers |-> NoStats]
    /\ calls = 0
    /\ running = 0
    /\ preempt_left = n
    /\ engine = [w \in Workers |-> "none"]
    /\ in_window = [w \in Workers |-> FALSE]
    /\ probe = 0
    /\ run = 0
    /\ overlapped = FALSE

\* ------------------------------------------------------ circuit breaker

Max0(x) == IF x > 0 THEN x ELSE 0

\* The breaker is open and at most circuit_timeout has passed since the
\* last failure.
Window ==
    /\ circuit_open
    /\ since_failure # NoTime
    /\ since_failure <= circuit_timeout

check_circuit_breaker_AtTimeout(open, fc, age) ==
    IF ~open THEN [circuit_open |-> open, failure_count |-> fc, closed |-> FALSE]
    ELSE IF age # NoTime /\ age >= circuit_timeout
         THEN [circuit_open |-> FALSE, failure_count |-> 0, closed |-> TRUE]
         ELSE [circuit_open |-> open, failure_count |-> fc, closed |-> FALSE]

check_circuit_breaker_KeepsCount(open, fc, age) ==
    IF ~open THEN [circuit_open |-> open, failure_count |-> fc, closed |-> FALSE]
    ELSE IF age # NoTime /\ age > circuit_timeout
         THEN [circuit_open |-> FALSE, failure_count |-> fc, closed |-> TRUE]
         ELSE [circuit_open |-> open, failure_count |-> fc, closed |-> FALSE]

\* DatabaseManager._check_circuit_breaker: the new circuit_open and
\* failure_count (closed: this call made the tentative close).
check_circuit_breaker(open, fc, age) ==
    IF ~open THEN [circuit_open |-> open, failure_count |-> fc, closed |-> FALSE]
    ELSE IF age # NoTime /\ age > circuit_timeout
         THEN [circuit_open |-> FALSE, failure_count |-> 0, closed |-> TRUE]
         ELSE [circuit_open |-> open, failure_count |-> fc, closed |-> FALSE]

handle_failure_opens_Above(fc) == fc > failure_threshold

\* DatabaseManager._handle_failure: if self.failure_count >= self.failure_threshold
handle_failure_opens(fc) == fc >= failure_threshold

success_store_NoFloor(loaded) == loaded

\* get_connection after the yield: max(0, self.failure_count - 1), on the
\* loaded value self.failure_count - 1
success_store(loaded) == Max0(loaded)

get_connection_finally_OnSuccessOnly(c, e) == IF e = "none" THEN "none" ELSE c

\* get_connection's finally: if conn: conn.close(); the connection the
\* worker holds afterwards
get_connection_finally(c, e) == "none"

\* What the caller of the operation sees, from the exception in flight.
Outcome(o, e) ==
    IF o \in ProbeOps THEN (IF e = "none" THEN "True" ELSE "False")
    ELSE IF e = "none" THEN "ok"
    ELSE IF e = "db" THEN "RuntimeError"
    ELSE IF e = "circuit" THEN "CircuitBreakerError"
    ELSE "OtherError"

InFlight(w) == pc[w] \notin {"idle", "done"}

Upd(f, w, v) == [f EXCEPT ![w] = v]


\* No finished operation waits for its caller to take the result.  Return
\* touches only the finished worker's own record, so letting it go first
\* loses no behaviour of the shared state.
Settled == \A v \in Workers : pc[v] # "done"

\* Worker w takes the next step.  Taking it while the worker that ran last
\* is still inside its operation is a preemption.
Sched(w) ==
    LET preempts == running # 0 /\ running # w /\ InFlight(running)
    IN  /\ Settled
        /\ preempts => preempt_left > 0
        /\ preempt_left' = IF preempts THEN preempt_left - 1 ELSE preempt_left
        /\ overlapped' = (overlapped \/ preempts)
        /\ running' = w

\* ------------------------------------------------------------ operations

\* A worker calls one of the DatabaseManager's operations.  Threads are
\* interchangeable: the call goes to the first worker that is free.
Begin(w, o) ==
    /\ pc[w] = "idle"
    /\ \A v \in Workers : v < w => pc[v] # "idle"
    /\ Sched(w)
    /\ calls < (IF overlapped' THEN MaxOverlapCalls
                 ELSE failure_threshold + MaxExtraCalls)
    /\ calls' = calls + 1
    /\ op' = Upd(op, w, o)
    /\ pc' = Upd(pc, w, IF o \in ProbeOps THEN "is_connected" ELSE "check")
    /\ in_window' = Upd(in_window, w, Window)
    /\ UNCHANGED <<sidevars, reportvars, cachevars, confvars, breakervars, metricvars, conn, exc, tmp, tx,
                   result, stats, engine, probe, run>>

\* is_connected: if self.circuit_open: return False
IsConnected(w) ==
    /\ pc[w] = "is_connected"
    /\ Sched(w)
    /\ IF circuit_open
       THEN /\ result' = Upd(result, w, "False")
            /\ pc' = Upd(pc, w, IF op[w] = "get_stats" THEN "stats" ELSE "done")
       ELSE /\ pc' = Upd(pc, w, "check")
            /\ UNCHANGED result
    /\ UNCHANGED <<sidevars, reportvars, cachevars, confvars, breakervars, metricvars, op, conn, exc, tmp, tx,
                   stats, calls, engine, in_window, probe, run>>

\* get_connection: self._check_circuit_breaker()
CheckCircuitBreaker(w) ==
    /\ pc[w] = "check"
    /\ Sched(w)
    /\ LET r == check_circuit_breaker(circuit_open, failure_count, since_failure)
       IN  /\ circuit_open' = r.circuit_open
           /\ failure_count' = r.failure_count
           /\ probe' = IF r.closed THEN w ELSE probe
           /\ run' = IF r.closed THEN 0 ELSE run
    /\ pc' = Upd(pc, w, "gate")
    /\ UNCHANGED <<sidevars, reportvars, cachevars, confvars, since_failure, metricvars, op, conn, exc, tmp, tx,
                   result, stats, calls, engine, in_window>>

\* get_connection: if self.circuit_open: raise CircuitBreakerError.  Raised
\* before the try, it passes execute_query's / execute_update's handler
\* (log and raise) unchanged; is_connected turns it into False.
Gate(w) ==
    /\ pc[w] = "gate"
    /\ Sched(w)
    /\ IF circuit_open
       THEN /\ exc' = Upd(exc, w, "circuit")
            /\ result' = Upd(result, w, Outcome(op[w], "circuit"))
            /\ pc' = Upd(pc, w, IF op[w] = "get_stats" THEN "stats" ELSE "done")
       ELSE /\ pc' = Upd(pc, w, "acquire")
            /\ UNCHANGED <<exc, result>>
    /\ UNCHANGED <<sidevars, reportvars, cachevars, confvars, breakervars, metricvars, op, conn, tmp, tx, stats,
                   calls, engine, in_window, probe, run>>

\* get_connection: self.pool.get_connection() or sqlite3.connect(...); the
\* engine answers with a connection or with a MySQLError / sqlite3.Error.
Acquire(w) ==
    /\ pc[w] = "acquire"
    /\ Sched(w)
    /\ engine' = Upd(engine, w, db_type)
    /\ \E out \in {"ok", "db"} :
         IF out = "ok"
         THEN /\ conn' = Upd(conn, w, db_type)
              /\ pc' = Upd(pc, w, "body")
              /\ UNCHANGED exc
         ELSE /\ exc' = Upd(exc, w, "db")
              /\ pc' = Upd(pc, w, "fail_read")
              /\ UNCHANGED conn
    /\ UNCHANGED <<sidevars, reportvars, cachevars, confvars, breakervars, metricvars, op, tmp, tx, result,
                   stats, calls, in_window, probe, run>>

\* The body run with the connection: the statements of execute_query
\* (execute, fetch), of execute_update (execute, commit when asked), the
\* SELECT 1 of is_connected, or the caller's code under transaction() /
\* get_connection().  It ends normally, with a database error
\* (MySQLError / sqlite3.Error), or with any other exception.  On a normal
\* end execute_query and execute_update load self.queries_executed.
Body(w) ==
    /\ pc[w] = "body"
    /\ Sched(w)
    /\ \E out \in {"none", "db", "other"}, commit \in BOOLEAN :
         /\ (op[w] # "execute_update" \/ out # "none") => commit
         /\ exc' = Upd(exc, w, out)
         /\ tx' = Upd(tx, w, IF op[w] = "execute_update" /\ out = "none" /\ commit
                             THEN "commit" ELSE tx[w])
         /\ tmp' = Upd(tmp, w, IF out = "none" /\ op[w] \in {"execute_query", "execute_update"}
                               THEN queries_executed ELSE tmp[w])
         /\ pc' = Upd(pc, w,
                IF op[w] = "transaction" THEN "tx_end"
                ELSE IF out = "db" THEN "fail_read"
                ELSE IF out = "other" THEN "finally"
                ELSE IF op[w] \in {"execute_query", "execute_update"} THEN "metrics"
                ELSE "success_test")
    /\ UNCHANGED <<sidevars, reportvars, cachevars, confvars, breakervars, metricvars, op, conn, result, stats,
                   calls, engine, in_window, probe, run>>

\* transaction(): conn.commit() after the body, or, on any exception of the
\* body or of the commit, conn.rollback() and raise.  A rollback that raises
\* a database error replaces the exception in flight.
TxEnd(w) ==
    /\ pc[w] = "tx_end"
    /\ Sched(w)
    /\ \E out \in {"none", "db"} :
         LET commits == exc[w] = "none" /\ out = "none"
             e == IF commits THEN "none"
                  ELSE IF exc[w] = "none" THEN "db"
                  ELSE IF out = "db" THEN "db" ELSE exc[w]
         IN  /\ tx' = Upd(tx, w, IF commits THEN "commit" ELSE "rollback")
             /\ exc' = Upd(exc, w, e)
             /\ pc' = Upd(pc, w, IF e = "none" THEN "success_test"
                                 ELSE IF e = "db" THEN "fail_read" ELSE "finally")
    /\ UNCHANGED <<sidevars, reportvars, cachevars, confvars, breakervars, metricvars, op, conn, tmp, result,
                   stats, calls, engine, in_window, probe, run>>

\* execute_query / execute_update: self.queries_executed += 1 (the store of
\* the value loaded in Body), and execute_query's slow-query count when the
\* measured time exceeds 1000 ms.
Metrics(w) ==
    /\ pc[w] = "metrics"
    /\ Sched(w)
    /\ queries_executed' = tmp[w] + 1
    /\ \E slow \in BOOLEAN :
         /\ slow => (op[w] = "execute_query" /\ slow_queries < MaxSlow)
         /\ slow_queries' = IF slow THEN slow_queries + 1 ELSE slow_queries
    /\ tmp' = Upd(tmp, w, 0)
    /\ pc' = Upd(pc, w, "success_test")
    /\ UNCHANGED <<sidevars, reportvars, cachevars, confvars, breakervars, errors, op, conn, exc, tx, result,
                   stats, calls, engine, in_window, probe, run>>

\* get_connection after the yield: if self.failure_count > 0
SuccessTest(w) ==
    /\ pc[w] = "success_test"
    /\ Sched(w)
    /\ IF failure_count > 0
       THEN /\ pc' = Upd(pc, w, "success_read")
            /\ UNCHANGED run
       ELSE /\ pc' = Upd(pc, w, "finally")
            /\ run' = 0
    /\ UNCHANGED <<sidevars, reportvars, cachevars, confvars, breakervars, metricvars, op, conn, exc, tmp, tx,
                   result, stats, calls, engine, in_window, probe>>

\* ... the load of self.failure_count - 1
SuccessRead(w) ==
    /\ pc[w] = "success_read"
    /\ Sched(w)
    /\ tmp' = Upd(tmp, w, failure_count - 1)
    /\ pc' = Upd(pc, w, "success_write")
    /\ UNCHANGED <<sidevars, reportvars, cachevars, confvars, breakervars, metricvars, op, conn, exc, tx,
                   result, stats, calls, engine, in_window, probe, run>>

\* ... the store self.failure_count = max(0, ...)
SuccessWrite(w) ==
    /\ pc[w] = "success_write"
    /\ Sched(w)
    /\ failure_count' = success_store(tmp[w])
    /\ tmp' = Upd(tmp, w, 0)
    /\ run' = 0
    /\ pc' = Upd(pc, w, "finally")
    /\ UNCHANGED <<sidevars, reportvars, cachevars, confvars, circuit_open, since_failure, metricvars, op, conn,
                   exc, tx, result, stats, calls, engine, in_window, probe>>

\* except (MySQLError, sqlite3.Error): self._handle_failure().
\* _handle_failure: the load of self.failure_count += 1
FailRead(w) ==
    /\ pc[w] = "fail_read"
    /\ Sched(w)
    /\ tmp' = Upd(tmp, w, failure_count)
    /\ pc' = Upd(pc, w, "fail_write")
    /\ UNCHANGED <<sidevars, reportvars, cachevars, confvars, breakervars, metricvars, op, conn, exc, tx,
                   result, stats, calls, engine, in_window, probe, run>>

\* _handle_failure: the store of self.failure_count += 1,
\* self.last_failure_time = time.time(), the load of self.errors += 1
FailWrite(w) ==
    /\ pc[w] = "fail_write"
    /\ Sched(w)
    /\ failure_count' = tmp[w] + 1
    /\ since_failure' = 0
    /\ tmp' = Upd(tmp, w, errors)
    /\ pc' = Upd(pc, w, "fail_open")
    /\ UNCHANGED <<sidevars, reportvars, cachevars, confvars, circuit_open, metricvars, op, conn, exc, tx,
                   result, stats, calls, engine, in_window, probe, run>>

\* _handle_failure: the store of self.errors += 1, and
\* if self.failure_count >= self.failure_threshold: self.circuit_open = True;
\* then raise RuntimeError
FailOpen(w) ==
    /\ pc[w] = "fail_open"
    /\ Sched(w)
    /\ errors' = tmp[w] + 1
    /\ circuit_open' = (circuit_open \/ handle_failure_opens(failure_count))
    /\ tmp' = Upd(tmp, w, 0)
    /\ run' = run + 1
    /\ pc' = Upd(pc, w, "finally")
    /\ UNCHANGED <<sidevars, reportvars, cachevars, confvars, failure_count, since_failure, queries_executed,
                   slow_queries, op, conn, exc, tx, result, stats, calls,
                   engine, in_window, probe>>

\* get_connection's finally, and the operation's return or raise.
Finally(w) ==
    /\ pc[w] = "finally"
    /\ Sched(w)
    /\ conn' = Upd(conn, w, get_connection_finally(conn[w], exc[w]))
    /\ result' = Upd(result, w, Outcome(op[w], exc[w]))
    /\ pc' = Upd(pc, w, IF op[w] = "get_stats" THEN "stats" ELSE "done")
    /\ UNCHANGED <<sidevars, reportvars, cachevars, confvars, breakervars, metricvars, op, exc, tmp, tx, stats,
                   calls, engine, in_window, probe, run>>

\* get_stats: the dict built once is_connected has returned
GetStats(w) ==
    /\ pc[w] = "stats"
    /\ Sched(w)
    /\ stats' = Upd(stats, w,
          [db_type |-> db_type, connected |-> (result[w] = "True"),
           circuit_open |-> circuit_open, failure_count |-> failure_count,
           queries_executed |-> queries_executed,
           slow_queries |-> slow_queries, errors |-> errors])
    /\ result' = Upd(result, w, "stats")
    /\ pc' = Upd(pc, w, "done")
    /\ UNCHANGED <<sidevars, reportvars, cachevars, confvars, breakervars, metricvars, op, conn, exc, tmp, tx,
                   calls, engine, in_window, probe, run>>

\* The caller has its result; the worker is free for the next call.
Return(w) ==
    /\ pc[w] = "done"
    /\ pc' = Upd(pc, w, "idle")
    /\ op' = Upd(op, w, "none")
    /\ exc' = Upd(exc, w, "none")
    /\ tx' = Upd(tx, w, "none")
    /\ result' = Upd(result, w, "none")
    /\ stats' = Upd(stats, w, NoStats)
    /\ engine' = Upd(engine, w, "none")
    /\ in_window' = Upd(in_window, w, FALSE)
    /\ probe' = IF probe = w THEN 0 ELSE probe
    /\ running' = 0
    /\ UNCHANGED <<sidevars, reportvars, cachevars, confvars, breakervars, metricvars, conn, tmp, calls,
                   preempt_left, run, overlapped>>

\* Time passes.  The code reads the clock only to compare
\* time.time() - self.last_failure_time with circuit_timeout, so the age of
\* the last failure is kept instead of the two times, and an age beyond the
\* timeout is not told from a larger one.
Tick ==
    /\ Settled
    /\ since_failure # NoTime
    /\ since_failure <= circuit_timeout
    /\ since_failure' = since_failure + 1
    /\ in_window' = [w \in Workers |->
                       in_window[w] /\ circuit_open /\ since_failure' <= circuit_timeout]
    /\ UNCHANGED <<sidevars, reportvars, cachevars, confvars, circuit_open, failure_count, metricvars,
                   workervars, schedvars, engine, probe, run, overlapped>>

DBNext ==
    \/ \E w \in Workers, o \in Ops : Begin(w, o)
    \/ \E w \in Workers : IsConnected(w)
    \/ \E w \in Workers : CheckCircuitBreaker(w)
    \/ \E w \in Workers : Gate(w)
    \/ \E w \in Workers : Acquire(w)
    \/ \E w \in Workers : Body(w)
    \/ \E w \in Workers : TxEnd(w)
    \/ \E w \in Workers : Metrics(w)
    \/ \E w \in Workers : SuccessTest(w)
    \/ \E w \in Workers : SuccessRead(w)
    \/ \E w \in Workers : SuccessWrite(w)
    \/ \E w \in Workers : FailRead(w)
    \/ \E w \in Workers : FailWrite(w)
    \/ \E w \in Workers : FailOpen(w)
    \/ \E w \in Workers : Finally(w)
    \/ \E w \in Workers : GetStats(w)
    \/ \E w \in Workers : Return(w)
    \/ Tick

\* ------------------------------------------------------------ CacheManager

cache_failure_threshold == 3

\* json.dumps: a tuple is written as a JSON array, a set is not serializable
\* (TypeError), a dict that contains itself is a circular reference
\* (ValueError).
json_dumps(v) ==
    CASE v.type = "dict" -> [v EXCEPT !.type = "object"]
      [] v.type \in {"tuple", "list"} -> [v EXCEPT !.type = "array"]
      [] v.type = "circular" -> Raise("ValueError")
      [] OTHER -> Raise("TypeError")

\* json.loads: a JSON array is read back as a list; a payload that is not
\* JSON raises JSONDecodeError.
json_loads(t) ==
    CASE t.type = "object" -> [t EXCEPT !.type = "dict"]
      [] t.type = "array" -> [t EXCEPT !.type = "list"]
      [] OTHER -> Raise("JSONDecodeError")

\* __init__ / _connect_redis: the client is kept only when the redis module
\* is importable, the cache is enabled and the ping succeeded.
connect_redis(b) == b = "redis_ok"

CacheInitial(B) ==
    \E b \in B :
        /\ enabled = (b # "disabled")
        /\ redis_client = connect_redis(b)
        /\ redis = [k \in Keys |-> Absent]
        /\ memory_cache = [k \in Keys |-> Absent]
        /\ cache_circuit_open = FALSE
        /\ cache_failure_count = 0
        /\ cache_since_failure = NoTime
        /\ hits = 0
        /\ misses = 0
        /\ sets = 0
        /\ cache_calls = 0
        /\ last = NoCall
        /\ prev = NoCall

\* The remote store is tried first.
UsesRedis == redis_client /\ ~cache_circuit_open

\* _handle_failure of the CacheManager
cache_handle_failure ==
    /\ cache_failure_count' = cache_failure_count + 1
    /\ cache_circuit_open' =
          (cache_circuit_open \/ cache_failure_count + 1 >= cache_failure_threshold)
    /\ cache_since_failure' = 0

cache_no_failure ==
    UNCHANGED <<cache_circuit_open, cache_failure_count, cache_since_failure>>

Called(o, k, v, r, rem) ==
    /\ prev' = last
    /\ last' = [op |-> o, key |-> k, value |-> v, ret |-> r, remote |-> rem]

get_hit_rate_Truncated(h, m) ==
    IF h + m = 0 THEN 0 ELSE (100 * h) \div (h + m)

\* get_hit_rate, in hundredths: round(hits / total, 2), halves to even.
get_hit_rate(h, m) ==
    LET total == h + m
        q == (100 * h) \div total
        r == (100 * h) % total
    IN  IF total = 0 THEN 0
        ELSE IF 2 * r > total \/ (2 * r = total /\ q % 2 = 1) THEN q + 1
        ELSE q

\* the glob pattern of delete_pattern against a key
Matches(pattern, k) == pattern = "report:*" /\ k.prefix = "report:sales"

\* get(key): out is what the remote store does when it is asked.
CacheGet(k, out) ==
    /\ UsesRedis \/ out = "ok"
    /\ IF ~enabled
       THEN /\ Called("get", k, None, None, FALSE)
            /\ cache_no_failure
            /\ UNCHANGED <<hits, misses>>
       ELSE IF UsesRedis /\ out = "ok"
       THEN /\ IF redis[k] # Absent
               THEN /\ hits' = hits + 1
                    /\ Called("get", k, None, json_loads(redis[k]), TRUE)
                    /\ UNCHANGED misses
               ELSE /\ misses' = misses + 1
                    /\ Called("get", k, None, None, TRUE)
                    /\ UNCHANGED hits
            /\ cache_no_failure
       ELSE /\ IF UsesRedis THEN cache_handle_failure ELSE cache_no_failure
            /\ IF memory_cache[k] # Absent
               THEN /\ hits' = hits + 1
                    /\ Called("get", k, None, memory_cache[k], UsesRedis)
                    /\ UNCHANGED misses
               ELSE /\ misses' = misses + 1
                    /\ Called("get", k, None, None, UsesRedis)
                    /\ UNCHANGED hits
    /\ UNCHANGED <<dbvars, enabled, redis_client, redis, memory_cache, sets>>

\* set(key, value, ttl): out is what the remote store does when it is asked.
CacheSet(k, v, out) ==
    /\ UsesRedis \/ out = "ok"
    /\ IF ~enabled
       THEN /\ Called("set", k, v, Bool(FALSE), FALSE)
            /\ cache_no_failure
            /\ UNCHANGED <<redis, memory_cache, sets>>
       ELSE IF UsesRedis /\ json_dumps(v).type = "raise"
                         /\ json_dumps(v).exc # "TypeError"
       THEN /\ Called("set", k, v, json_dumps(v), FALSE)
            /\ cache_no_failure
            /\ UNCHANGED <<redis, memory_cache, sets>>
       ELSE IF UsesRedis /\ json_dumps(v).type # "raise" /\ out = "ok"
       THEN /\ redis' = [redis EXCEPT ![k] = json_dumps(v)]
            /\ sets' = sets + 1
            /\ Called("set", k, v, Bool(TRUE), TRUE)
            /\ cache_no_failure
            /\ UNCHANGED memory_cache
       ELSE /\ IF UsesRedis THEN cache_handle_failure ELSE cache_no_failure
            /\ memory_cache' = [memory_cache EXCEPT ![k] = v]
            /\ sets' = sets + 1
            /\ Called("set", k, v, Bool(TRUE),
                      UsesRedis /\ json_dumps(v).type # "raise")
            /\ UNCHANGED redis
    /\ UNCHANGED <<dbvars, enabled, redis_client, hits, misses>>

\* delete(key)
CacheDelete(k, out) ==
    /\ UsesRedis \/ out = "ok"
    /\ redis' = IF UsesRedis /\ out = "ok"
                THEN [redis EXCEPT ![k] = Absent] ELSE redis
    /\ memory_cache' = [memory_cache EXCEPT ![k] = Absent]
    /\ Called("delete", k, None,
              Bool((UsesRedis /\ out = "ok") \/ memory_cache[k] # Absent),
              UsesRedis)
    /\ UNCHANGED <<dbvars, enabled, redis_client, cache_circuit_open,
                   cache_failure_count, cache_since_failure, hits, misses,
                   sets>>

\* delete_pattern(pattern)
CacheDeletePattern(pattern, out) ==
    LET inRedis == {k \in Keys : Matches(pattern, k) /\ redis[k] # Absent}
        inMemory == {k \in Keys : Matches(pattern, k) /\ memory_cache[k] # Absent}
        remote == UsesRedis /\ out = "ok"
    IN  /\ UsesRedis \/ out = "ok"
        /\ redis' = IF remote
                    THEN [k \in Keys |-> IF k \in inRedis THEN Absent ELSE redis[k]]
                    ELSE redis
        /\ memory_cache' = [k \in Keys |->
                               IF k \in inMemory THEN Absent ELSE memory_cache[k]]
        /\ Called("delete_pattern", NoKey, Str(pattern),
                  Number((IF remote THEN Cardinality(inRedis) ELSE 0)
                      + Cardinality(inMemory)),
                  UsesRedis)
        /\ UNCHANGED <<dbvars, enabled, redis_client, cache_circuit_open,
                       cache_failure_count, cache_since_failure, hits, misses,
                       sets>>

\* get_stats() of the CacheManager
CacheGetStats ==
    /\ Called("get_stats", NoKey, None,
              [type |-> "dict",
               enabled |-> enabled,
               using_redis |-> UsesRedis,
               circuit_open |-> cache_circuit_open,
               hits |-> hits,
               misses |-> misses,
               sets |-> sets,
               hit_rate |-> get_hit_rate(hits, misses),
               memory_cache_size |->
                   Cardinality({k \in Keys : memory_cache[k] # Absent})],
              FALSE)
    /\ UNCHANGED <<dbvars, enabled, redis_client, redis, memory_cache,
                   cache_circuit_open, cache_failure_count, cache_since_failure,
                   hits, misses, sets>>

\* A call made directly on the CacheManager.
DirectCall == /\ cache_calls < MaxCacheCalls
              /\ cache_calls' = cache_calls + 1
              /\ UNCHANGED <<sidevars, reportvars>>

Event(o, k) ==
    /\ UNCHANGED <<sidevars, reportvars>>
    /\ prev' = last
    /\ last' = [op |-> o, key |-> k, value |-> None, ret |-> None,
                remote |-> FALSE]

\* The remote store drops an entry whose TTL has run out.
Expire(k) ==
    /\ redis[k] # Absent
    /\ redis' = [redis EXCEPT ![k] = Absent]
    /\ Event("expire", k)
    /\ UNCHANGED <<dbvars, enabled, redis_client, memory_cache,
                   cache_circuit_open, cache_failure_count, cache_since_failure,
                   hits, misses, sets, cache_calls>>

\* Another client of the same remote store writes a payload that is not JSON.
ForeignWrite(k) ==
    /\ redis_client
    /\ redis[k] # [type |-> "text"]
    /\ redis' = [redis EXCEPT ![k] = [type |-> "text"]]
    /\ Event("foreign", k)
    /\ UNCHANGED <<dbvars, enabled, redis_client, memory_cache,
                   cache_circuit_open, cache_failure_count, cache_since_failure,
                   hits, misses, sets, cache_calls>>

\* Time passes after the cache breaker has opened.
CacheTick ==
    /\ cache_circuit_open
    /\ cache_since_failure <= circuit_timeout
    /\ cache_since_failure' = cache_since_failure + 1
    /\ Event("tick", NoKey)
    /\ UNCHANGED <<dbvars, enabled, redis_client, redis, memory_cache,
                   cache_circuit_open, cache_failure_count, hits, misses, sets,
                   cache_calls>>

cache_get(k, out) == DirectCall /\ CacheGet(k, out)
cache_set(k, v, out) == DirectCall /\ CacheSet(k, v, out)
cache_delete(k, out) == DirectCall /\ CacheDelete(k, out)
cache_delete_pattern(pattern, out) == DirectCall /\ CacheDeletePattern(pattern, out)
cache_get_stats == DirectCall /\ CacheGetStats

CacheNext ==
    \/ \E k \in DirectKeys, out \in {"ok", "error"} : cache_get(k, out)
    \/ \E k \in DirectKeys, v \in Values, out \in {"ok", "error"} :
          cache_set(k, v, out)
    \/ \E k \in DirectKeys, out \in {"ok", "error"} : cache_delete(k, out)
    \/ \E pattern \in Patterns, out \in {"ok", "error"} :
          cache_delete_pattern(pattern, out)
    \/ cache_get_stats
    \/ \E k \in DirectKeys : Expire(k)
    \/ \E k \in DirectKeys : ForeignWrite(k)
    \/ CacheTick

\* ----------------------------------------------------------- ReportService

Range(a, b) == [type |-> "range", start |-> a, end |-> b]

NoRange == [type |-> "none"]

get_date_range_UsesExplicit(period, start, end, day) ==
    IF start # NoDate /\ end # NoDate THEN Range(start, end)
    ELSE Range(day - 7, day)

\* _get_date_range, with day the value of datetime.now().date()
get_date_range(period, start, end, day) ==
    CASE period = "personalizado" ->
            IF start = NoDate \/ end = NoDate
            THEN Raise("ValueError") ELSE Range(start, end)
      [] period = "dia" -> Range(day, day)
      [] period = "semana" -> Range(day - 7, day)
      [] period = "mes" -> Range(day - 30, day)
      [] period = "trimestre" -> Range(day - 90, day)
      [] period = "año" -> Range(day - 365, day)
      [] OTHER -> Range(day - 7, day)

\* The envelope a report method builds from the rows of its query: data
\* stands for the rows, which are those of the date range queried.
Envelope(r, range) ==
    [type |-> "dict",
     report_type |-> r.report_type,
     period |-> IF r.report_type = "resumen" THEN "none" ELSE r.period,
     data |-> [start |-> range.start, end |-> range.end],
     cached |-> FALSE]

\* No dict object
NoObject == 0

NoCallYet == [req |-> NoRequest, day |-> NoDate, result |-> None, nqueries |-> 0,
              id |-> NoObject]

ReportInitial(D) ==
    /\ today \in D
    /\ rpc = "idle"
    /\ req = NoRequest
    /\ rday = NoDate
    /\ rkey = NoKey
    /\ rrange = NoRange
    /\ renv = None
    /\ rresult = None
    /\ nqueries = 0
    /\ report_calls = 0
    /\ rprev = NoCallYet
    /\ rid = NoObject
    /\ mem_id = [k \in Keys |-> NoObject]

\* The call returns v or raises it.
Finish(v) ==
    /\ rresult' = v
    /\ rpc' = "done"

generator_HourlyAsSales(report_type) ==
    CASE report_type \in {"ventas", "ventas_horarias"} -> "get_sales_report"
      [] report_type = "productos" -> "get_products_report"
      [] report_type = "clientes" -> "get_customers_report"
      [] report_type = "revenue_categoria" -> "get_revenue_by_category"
      [] report_type = "resumen" -> "get_summary_dashboard"
      [] OTHER -> "none"

\* generate_report: the method the if / elif chain on request.report_type
\* calls, "none" for the final else
generator(report_type) ==
    CASE report_type = "ventas" -> "get_sales_report"
      [] report_type = "productos" -> "get_products_report"
      [] report_type = "clientes" -> "get_customers_report"
      [] report_type = "revenue_categoria" -> "get_revenue_by_category"
      [] report_type = "resumen" -> "get_summary_dashboard"
      [] OTHER -> "none"

\* generate_report(request): dispatch on the report type; get_sales_report
\* starts by deriving its cache key, json.dumps of which fails on a date.
GenerateReport(r) ==
    /\ rpc \in {"idle", "done"}
    /\ report_calls < MaxReportCalls
    /\ report_calls' = report_calls + 1
    /\ rprev' = IF rpc = "done"
                THEN [req |-> req, day |-> rday, result |-> rresult,
                      nqueries |-> nqueries,
                      id |-> IF rresult.type = "dict" THEN rid ELSE NoObject]
                ELSE rprev
    /\ rid' = NoObject
    /\ req' = r
    /\ rday' = today
    /\ nqueries' = 0
    /\ rrange' = NoRange
    /\ renv' = None
    /\ CASE generator(r.report_type) = "get_sales_report" ->
               IF r.start # NoDate
               THEN Finish(Raise("TypeError")) /\ rkey' = NoKey
               ELSE /\ rkey' = generate_cache_key("report:sales", r.period,
                                                  NoDate, NoDate)
                    /\ rpc' = "cache_get"
                    /\ rresult' = None
         [] generator(r.report_type) \in {"get_products_report",
                                        "get_customers_report",
                                        "get_revenue_by_category"} ->
               /\ rpc' = "range"
               /\ rresult' = None
               /\ rkey' = NoKey
         [] generator(r.report_type) = "get_summary_dashboard" ->
               /\ rpc' = "query"
               /\ rresult' = None
               /\ rkey' = NoKey
         [] OTHER -> Finish(Raise("ValueError")) /\ rkey' = NoKey
    /\ UNCHANGED <<sidevars, dbvars, cachevars, today, mem_id>>

\* get_sales_report: cached = self.cache.get(cache_key); if cached: ...
\* A hit of the local map hands out the dict object the map holds, a hit on
\* Redis a dict that json.loads has just built.
SalesCacheGet ==
    /\ rpc = "cache_get"
    /\ \E out \in {"ok", "error"} :
         /\ CacheGet(rkey, out)
         /\ LET cached == last'.ret
                from_memory == enabled /\ ~(UsesRedis /\ out = "ok")
            IN  IF cached.type = "raise"
                THEN Finish(cached) /\ UNCHANGED <<renv, rid>>
                ELSE IF cached # None
                THEN /\ rpc' = "mark"
                     /\ renv' = cached
                     /\ rid' = IF from_memory THEN mem_id[rkey] ELSE report_calls
                     /\ rresult' = None
                ELSE rpc' = "range" /\ rresult' = None /\ UNCHANGED <<renv, rid>>
    /\ UNCHANGED <<sidevars, cache_calls, today, req, rday, rkey, rrange, nqueries,
                   report_calls, rprev, mem_id>>

\* get_sales_report: cached['cached'] = True; return cached.  The item
\* assignment changes the dict object itself, for everyone that holds it: the
\* local map when the object came from it, and the caller of the earlier call
\* that was returned the same object.
SalesMarkCached ==
    /\ rpc = "mark"
    /\ LET marked == [renv EXCEPT !.cached = TRUE]
       IN  /\ Finish(marked)
           /\ renv' = marked
           /\ memory_cache' = IF mem_id[rkey] = rid
                               THEN [memory_cache EXCEPT ![rkey] = marked]
                               ELSE memory_cache
           /\ rprev' = IF rprev.id = rid
                       THEN [rprev EXCEPT !.result = marked]
                       ELSE rprev
    /\ UNCHANGED <<sidevars, dbvars, enabled, redis_client, redis, cache_circuit_open,
                   cache_failure_count, cache_since_failure, hits, misses, sets,
                   cache_calls, last, prev, today, req, rday, rkey, rrange,
                   nqueries, report_calls, rid, mem_id>>

\* the call of _get_date_range in a report method
ResolveRange ==
    /\ rpc = "range"
    /\ LET got == get_date_range(req.period, req.start, req.end, rday)
       IN  IF got.type = "raise"
           THEN Finish(got) /\ rrange' = NoRange
           ELSE rrange' = got /\ rpc' = "query" /\ rresult' = None
    /\ UNCHANGED <<sidevars, dbvars, cachevars, today, req, rday, rkey, renv, nqueries,
                   report_calls, rprev, rid, mem_id>>

\* self.db.execute_query(...): out is what the DatabaseManager answers; the
\* summary makes four queries, any of which may fail.
RunQuery(out) ==
    /\ rpc = "query"
    /\ LET range == IF generator(req.report_type) = "get_summary_dashboard"
                    THEN Range(rday, rday)
                    ELSE rrange
           planned == IF generator(req.report_type) = "get_summary_dashboard"
                      THEN 4 ELSE 1
       IN  IF out = "rows"
           THEN /\ nqueries' = nqueries + planned
                /\ renv' = Envelope(req, range)
                /\ rid' = report_calls
                /\ IF generator(req.report_type) = "get_sales_report"
                   THEN rpc' = "cache_set" /\ rresult' = None
                   ELSE Finish(Envelope(req, range))
           ELSE /\ \E n \in 1..planned : nqueries' = nqueries + n
                /\ Finish(Raise(out))
                /\ renv' = None
                /\ UNCHANGED rid
    /\ UNCHANGED <<sidevars, dbvars, cachevars, today, req, rday, rkey, rrange,
                   report_calls, rprev, mem_id>>

\* get_sales_report: self.cache.set(cache_key, result, ttl=600); return result
\* The local map, when it is the tier written, keeps the dict object it was
\* given, which is also the one returned.
SalesCacheSet ==
    /\ rpc = "cache_set"
    /\ \E out \in {"ok", "error"} :
         /\ CacheSet(rkey, renv, out)
         /\ LET to_memory == enabled /\ ~(UsesRedis /\ out = "ok")
            IN  mem_id' = IF to_memory THEN [mem_id EXCEPT ![rkey] = rid]
                          ELSE mem_id
    /\ Finish(renv)
    /\ UNCHANGED <<sidevars, cache_calls, today, req, rday, rkey, rrange, renv, nqueries,
                   report_calls, rprev, rid>>

\* Midnight passes between two calls.
NextDay ==
    /\ rpc \in {"idle", "done"}
    /\ today < FirstDay + MaxDays
    /\ today' = today + 1
    /\ UNCHANGED <<sidevars, dbvars, cachevars, rpc, req, rday, rkey, rrange, renv,
                   rresult, nqueries, report_calls, rprev, rid, mem_id>>

ReportNext ==
    \/ \E r \in Requests : GenerateReport(r)
    \/ SalesCacheGet
    \/ SalesMarkCached
    \/ ResolveRange
    \/ \E out \in {"rows", "RuntimeError", "CircuitBreakerError"} : RunQuery(out)
    \/ SalesCacheSet
    \/ NextDay

\* ---------------------------------------------------------------- helpers of ReportService

\* No helper has been given an input.
HelpersIdle ==
    /\ fquery = <<>>
    /\ ffilters = None
    /\ fret = None
    /\ srows = <<>>
    /\ sret = None

\* bool(v) of an optional int, float or enum value
Truthy(v) ==
    /\ v # None
    /\ v.type = "int" => v.value # 0
    /\ v.type = "str" => v.text # ""

\* The filters of _apply_filters in the order they are tested, each with the
\* condition it appends.
FilterFields ==
    << [name |-> "customer_id", sql |-> "p.cliente_id = ?"],
       [name |-> "product_id", sql |-> "dp.producto_id = ?"],
       [name |-> "category_id", sql |-> "prod.categoria_id = ?"],
       [name |-> "status", sql |-> "p.estado = ?"],
       [name |-> "min_amount", sql |-> "p.total >= ?"],
       [name |-> "max_amount", sql |-> "p.total <= ?"] >>

\* sep.join(parts), as a sequence of parts
RECURSIVE Join(_, _)
Join(parts, sep) ==
    IF Len(parts) <= 1 THEN parts
    ELSE <<Head(parts), sep>> \o Join(Tail(parts), sep)

\* _apply_filters: the query and the parameters built from the filters that
\* were applied (conditions and params are appended together)
FiltersApplied(base_query, filters, applied) ==
    LET conditions == [i \in 1..Len(applied) |-> applied[i].sql]
        params == [i \in 1..Len(applied) |-> filters[applied[i].name]]
        has_where == \E i \in 1..Len(base_query) : base_query[i] = "WHERE"
    IN  IF conditions = <<>>
        THEN [query |-> base_query, params |-> params]
        ELSE [query |-> base_query
                        \o <<IF has_where THEN "AND" ELSE "WHERE">>
                        \o Join(conditions, "AND"),
              params |-> params]

\* _apply_filters(base_query, request): if not request.filters: return
\* base_query, params; then if filters.customer_id: ... and so on, each filter
\* applied when its value is truthy
apply_filters(base_query, filters) ==
    IF filters = None
    THEN [query |-> base_query, params |-> <<>>]
    ELSE FiltersApplied(base_query, filters,
                        SelectSeq(FilterFields, LAMBDA fd : Truthy(filters[fd.name])))

ApplyFilters ==
    /\ fret = None
    /\ fret' = apply_filters(fquery, ffilters)
    /\ UNCHANGED <<dbvars, cachevars, reportvars, legacyvars, fquery, ffilters,
                   srows, sret>>

RECURSIVE GCD(_, _)
GCD(a, b) == IF b = 0 THEN a ELSE GCD(b, a % b)

\* a / b of two numbers with b > 0, as the fraction in lowest terms
TrueDiv(a, b) ==
    LET g == GCD(IF a < 0 THEN -a ELSE a, b)
    IN  [type |-> "float", num |-> a \div g, den |-> b \div g]

\* sum(item.<field> for item in items)
RECURSIVE sum(_, _)
sum(items, field) ==
    IF items = <<>> THEN 0 ELSE Head(items)[field] + sum(Tail(items), field)

average_ticket_Unguarded(total_revenue, total_orders) ==
    IF total_orders = 0 THEN Raise("ZeroDivisionError")
    ELSE TrueDiv(total_revenue, total_orders)

\* total_revenue / total_orders if total_orders > 0 else 0.0
average_ticket(total_revenue, total_orders) ==
    IF total_orders > 0 THEN TrueDiv(total_revenue, total_orders)
    ELSE TrueDiv(0, 1)

\* get_sales_report: the totals of the SalesReport built from the rows
sales_totals(rows) ==
    LET total_revenue == sum(rows, "total_ventas")
        total_orders == sum(rows, "numero_pedidos")
    IN  [type |-> "SalesReport",
         total_revenue |-> total_revenue,
         total_orders |-> total_orders,
         average_ticket |-> average_ticket(total_revenue, total_orders)]

SalesTotals ==
    /\ sret = None
    /\ sret' = sales_totals(srows)
    /\ UNCHANGED <<dbvars, cachevars, reportvars, legacyvars, fquery, ffilters,
                   fret, srows>>

\* ---------------------------------------------------------------- legacy app

LegacyInitial(T) ==
    /\ ldb_type \in T
    /\ lpc = "idle"
    /\ lperiodo = "none"
    /\ lstart = 0
    /\ lconn = "none"
    /\ ldata = NoData
    /\ lerrors = 0
    /\ lstatus = 0
    /\ lbody = None
    /\ lcalls = 0

\* reports.get_start_date(periodo), as the number of days before now
get_start_date(periodo) ==
    IF periodo = "mes" THEN 30
    ELSE IF periodo = "año" THEN 365
    ELSE 7

\* GET /api/reportes?periodo=...: get_reportes_json starts
LegacyRequest(periodo) ==
    /\ lpc \in {"idle", "done"}
    /\ lcalls < MaxLegacyCalls
    /\ lcalls' = lcalls + 1
    /\ lperiodo' = periodo
    /\ lstart' = 0
    /\ ldata' = NoData
    /\ lerrors' = 0
    /\ lstatus' = 0
    /\ lbody' = None
    /\ lpc' = "1"
    /\ UNCHANGED <<dbvars, cachevars, reportvars, purevars, ldb_type, lconn>>

\* except Exception as e: return jsonify({"error": str(e)}), 500; then the
\* teardown close_db
Respond500(e) ==
    /\ lstatus' = 500
    /\ lbody' = [type |-> "dict", error |-> e]
    /\ lconn' = "none"
    /\ lpc' = "done"

\* One of get_ventas_report, get_productos_mas_vendidos_report and
\* get_pedidos_por_cliente_report, called by the endpoint: get_start_date,
\* get_db (which connects when the request has no connection yet),
\* db.cursor(dictionary=True), then cursor.execute inside try / except
\* Exception: return [].  After the third the endpoint returns jsonify(data)
\* and the teardown closes the connection.
LegacyReport(connect, out) ==
    /\ lpc \in {"1", "2", "3"}
    /\ lstart' = get_start_date(lperiodo)
    /\ lconn # "none" => connect = "ok"
    /\ LET name == LegacyReports[IF lpc = "1" THEN 1 ELSE IF lpc = "2" THEN 2 ELSE 3]
           data == [ldata EXCEPT ![name] = IF out = "rows" THEN "rows" ELSE "[]"]
       IN  IF connect = "error"
           THEN /\ Respond500("RuntimeError")
                /\ lerrors' = lerrors + 1
                /\ UNCHANGED ldata
           ELSE IF ldb_type = "sqlite"
           THEN /\ Respond500("TypeError")
                /\ UNCHANGED <<ldata, lerrors>>
           ELSE /\ ldata' = data
                /\ lerrors' = IF out = "rows" THEN lerrors ELSE lerrors + 1
                /\ IF lpc = "3"
                   THEN /\ lstatus' = 200
                        /\ lbody' = [type |-> "dict", data |-> data]
                        /\ lconn' = "none"
                        /\ lpc' = "done"
                   ELSE /\ lconn' = ldb_type
                        /\ lpc' = IF lpc = "1" THEN "2" ELSE "3"
                        /\ UNCHANGED <<lstatus, lbody>>
    /\ UNCHANGED <<dbvars, cachevars, reportvars, purevars, ldb_type, lperiodo,
                   lcalls>>

LegacyNext ==
    \/ \E periodo \in LegacyPeriods : LegacyRequest(periodo)
    \/ \E connect \in {"ok", "error"}, out \in {"rows", "error"} :
          LegacyReport(connect, out)

\* The DatabaseManager once constructed against the engine it was configured
\* for, under concurrent callers.
DBInit ==
    /\ HelpersIdle
    /\ LegacyInitial({"mysql"})
    /\ DBInitial(NormalBoots, MaxSwitches)
    /\ CacheInitial({"redis_ok"})
    /\ ReportInitial({FirstDay})

SpecDB == DBInit /\ [][DBNext]_vars

\* The DatabaseManager under every outcome of its construction, one caller at
\* a time.
BootInit ==
    /\ HelpersIdle
    /\ LegacyInitial({"mysql"})
    /\ DBInitial(Boots, 0)
    /\ CacheInitial({"redis_ok"})
    /\ ReportInitial({FirstDay})

SpecBoot == BootInit /\ [][DBNext]_vars

\* The CacheManager under every outcome of its construction, one caller at a
\* time, next to an idle DatabaseManager.
CacheInit ==
    /\ HelpersIdle
    /\ LegacyInitial({"mysql"})
    /\ CacheInitial(CacheBoots)
    /\ ReportInitial({FirstDay})
    /\ DBInitial({"mysql_ok"}, 0)
    /\ failure_threshold = MaxThreshold
    /\ circuit_timeout = MaxTimeout

SpecCache == CacheInit /\ [][CacheNext]_vars

\* The ReportService over a CacheManager under every outcome of its
\* construction, one request at a time; the DatabaseManager is represented
\* by what execute_query answers.
ReportInit ==
    /\ HelpersIdle
    /\ LegacyInitial({"mysql"})
    /\ ReportInitial({FirstDay})
    /\ CacheInitial(CacheBoots)
    /\ DBInitial({"mysql_ok"}, 0)
    /\ failure_threshold = MaxThreshold
    /\ circuit_timeout = MaxTimeout

SpecReport == ReportInit /\ [][ReportNext]_vars

\* _apply_filters applied to every base query and every valid filter object.
FiltersInit ==
    /\ fquery \in BaseQueries
    /\ ffilters \in FilterInputs
    /\ fret = None
    /\ srows = <<>>
    /\ sret = None
    /\ LegacyInitial({"mysql"})
    /\ ReportInitial({FirstDay})
    /\ CacheInitial({"redis_ok"})
    /\ DBInitial({"mysql_ok"}, 0)
    /\ failure_threshold = MaxThreshold
    /\ circuit_timeout = MaxTimeout

SpecFilters == FiltersInit /\ [][ApplyFilters]_vars

\* The totals of get_sales_report for every sequence of rows.
TotalsInit ==
    /\ srows \in RowSeqs
    /\ sret = None
    /\ fquery = <<>>
    /\ ffilters = None
    /\ fret = None
    /\ LegacyInitial({"mysql"})
    /\ ReportInitial({FirstDay})
    /\ CacheInitial({"redis_ok"})
    /\ DBInitial({"mysql_ok"}, 0)
    /\ failure_threshold = MaxThreshold
    /\ circuit_timeout = MaxTimeout

SpecTotals == TotalsInit /\ [][SalesTotals]_vars

\* The legacy application configured for either engine, requests served one
\* after the other.
LegacyInit ==
    /\ LegacyInitial({"mysql", "sqlite"})
    /\ HelpersIdle
    /\ ReportInitial({FirstDay})
    /\ CacheInitial({"redis_ok"})
    /\ DBInitial({"mysql_ok"}, 0)
    /\ failure_threshold = MaxThreshold
    /\ circuit_timeout = MaxTimeout

SpecLegacy == LegacyInit /\ [][LegacyNext]_vars

\* ---------------------------------------------------------------- claims

\* The operation of w has passed the breaker and reached the engine's side.
Admitted(w) == pc[w] \notin {"idle", "is_connected", "check", "gate", "stats", "done"}

\* C1: an operation called while the breaker is open and no more than
\* circuit_timeout has passed since the last failure (and that stays so
\* while the call is evaluated) is rejected with CircuitBreakerError and
\* neither contacts the engine nor holds a connection.
C1_OpenBreakerRejects ==
    \A w \in Workers :
        (in_window[w] /\ op[w] \in ConnOps) =>
            /\ ~Admitted(w)
            /\ conn[w] = "none"
            /\ engine[w] = "none"
            /\ pc[w] = "done" => result[w] = "CircuitBreakerError"

\* threshold 3: after three failed queries the fourth call fails at once
C1_Witness ==
    \E w \in Workers :
        /\ failure_threshold = 3 /\ errors = 3 /\ calls = 4
        /\ in_window[w] /\ op[w] = "execute_query"
        /\ pc[w] = "done" /\ result[w] = "CircuitBreakerError"
        /\ engine[w] = "none"

C3_SingleProbe ==
    [][\A w \in Workers :
          (pc[w] = "gate" /\ pc'[w] = "acquire") =>
              ~\E v \in Workers \ {w} : probe = v /\ InFlight(v)]_vars

\* C4 (as claimed): when the probe fails, the breaker is open again as soon
\* as the failure is recorded.
C4_FailedProbeReopens ==
    [][\A w \in Workers :
          (~overlapped /\ probe = w /\ pc[w] = "fail_open" /\ pc'[w] = "finally")
              => circuit_open']_vars

C6_ConnectionReleased ==
    \A w \in Workers : pc[w] \in {"idle", "stats", "done"} => conn[w] = "none"

\* a call that obtained a connection and ended with an unexpected exception
C6_Witness ==
    \E w \in Workers :
        /\ pc[w] = "done"
        /\ op[w] \in {"execute_query", "transaction"}
        /\ result[w] = "OtherError"
        /\ engine[w] # "none"
        /\ conn[w] = "none"

\* C7 (as claimed): an execute_query / execute_update call that was admitted
\* and did not succeed has recorded a breaker failure and raises
\* RuntimeError.
C7_EveryFailureRecorded ==
    \A w \in Workers :
        (/\ pc[w] = "done"
         /\ op[w] \in {"execute_query", "execute_update"}
         /\ engine[w] # "none"
         /\ result[w] # "ok")
            => /\ result[w] = "RuntimeError"
               /\ errors >= 1
               /\ since_failure # NoTime

\* C8 (as claimed): no step of get_stats changes the breaker or the counters.
C8_GetStatsReadOnly ==
    [][\A w \in Workers :
          (op[w] = "get_stats" /\ pc'[w] # pc[w]) =>
              UNCHANGED <<circuit_open, failure_count, since_failure,
                          queries_executed, slow_queries, errors>>]_vars

\* C9: when the pooled engine could not be initialised, db_type is 'sqlite'
\* in every later state, get_stats reports it, and no operation contacts the
\* pooled engine.
C9_FallbackToSQLite ==
    boot \in FallbackBoots =>
        /\ db_type = "sqlite"
        /\ \A w \in Workers :
              /\ engine[w] # "mysql"
              /\ conn[w] # "mysql"
              /\ (pc[w] = "done" /\ op[w] = "get_stats")
                     => stats[w].db_type = "sqlite"

\* the test query failed at construction; get_stats later reaches SQLite
C9_Witness ==
    /\ boot = "test_query_error"
    /\ \E w \in Workers :
          /\ pc[w] = "done" /\ op[w] = "get_stats"
          /\ stats[w].db_type = "sqlite" /\ stats[w].connected
          /\ engine[w] = "sqlite"

\* json.dumps followed by json.loads gives the value back.
JSONStable(v) ==
    json_dumps(v).type # "raise" /\ json_loads(json_dumps(v)) = v

\* C10 (as claimed): on an enabled CacheManager a get(k) that directly
\* follows a set(k, v) returns v, whatever the remote store did during the
\* two calls (v being a value that JSON encoding preserves).
C10_RoundTrip ==
    (/\ enabled
     /\ prev.op = "set" /\ last.op = "get"
     /\ prev.key = last.key
     /\ JSONStable(prev.value))
        => last.ret = prev.value

\* C11 (as claimed): a get that returns nothing found the key in neither
\* tier; in particular a key held by the local map is returned even when
\* the remote lookup succeeded and found nothing.
C11_GetConsultsLocalMap ==
    (enabled /\ last.op = "get" /\ last.ret = None)
        => memory_cache[last.key] = Absent

\* C12 (as claimed): after a set(k, v) has returned on an enabled
\* CacheManager, memory_cache[k] = v.
C12_SetWritesLocalMap ==
    (enabled /\ last.op = "set" /\ last.ret.type # "raise")
        => memory_cache[last.key] = last.value

\* C13 (as claimed): get and set never raise to their caller.
C13_GetSetNeverRaise ==
    last.op \in {"get", "set"} => last.ret.type # "raise"

\* C14 (as claimed): a get or set made once more than the timeout has
\* passed since the last failure of the remote store asks the remote store
\* again.
C14_CacheBreakerProbes ==
    (/\ enabled /\ redis_client
     /\ last.op \in {"get", "set"}
     /\ last.ret.type # "raise"
     /\ cache_since_failure > circuit_timeout)
        => last.remote

\* C18 (as claimed): a get that directly follows delete(k), or a
\* delete_pattern whose pattern matches k, finds nothing.
C18_DeleteRemovesFromBothTiers ==
    (/\ last.op = "get"
     /\ \/ prev.op = "delete" /\ prev.key = last.key
        \/ prev.op = "delete_pattern" /\ Matches(prev.value.text, last.key))
        => last.ret = None

\* C19 (as claimed): the hit rate reported by get_stats is exactly
\* hits / (hits + misses), and 0.0 when no get has been made.
C19_ExactHitRate ==
    last.op = "get_stats" =>
        last.ret.hit_rate * (last.ret.hits + last.ret.misses)
            = 100 * last.ret.hits

\* a get called directly on the cache has just completed
GetStep == last'.op = "get" /\ cache_calls' # cache_calls

\* C19 (amended): on an enabled CacheManager every get increments exactly
\* one of hits and misses, by one; the hit rate reported by get_stats is
\* hits / (hits + misses) rounded to two decimals (it differs from the
\* quotient by at most 0.005), and 0.0 when no get has been made.
C19_RoundedHitRate ==
    /\ [](last.op = "get_stats" =>
            LET h == last.ret.hits
                t == last.ret.hits + last.ret.misses
                r == last.ret.hit_rate
            IN  /\ t = 0 => r = 0
                /\ 2 * (r * t - 100 * h) <= t
                /\ 2 * (100 * h - r * t) <= t)
    /\ [][(enabled /\ GetStep) =>
             /\ hits' + misses' = hits + misses + 1
             /\ hits' = hits \/ misses' = misses]_vars

\* one hit in three gets is reported as 0.33
C19_Witness ==
    /\ enabled
    /\ last.op = "get_stats"
    /\ prev.op = "get"
    /\ last.ret.hits = 1 /\ last.ret.misses = 2
    /\ last.ret.hit_rate = 33

\* the previous generate_report call was of the same request, on the same
\* day, and returned an envelope computed from the database
Repeated ==
    /\ rpc = "done"
    /\ rprev.req = req
    /\ rprev.day = rday
    /\ rprev.result.type = "dict"
    /\ ~rprev.result.cached

\* C15 (as claimed): with the cache enabled, a generate_report that directly
\* follows a generate_report of the same request that missed the cache
\* returns the cached envelope with cached = true and makes no database
\* query, for every supported report type.
C15_SecondCallServedFromCache ==
    (enabled /\ Repeated) =>
        /\ rresult.type = "dict"
        /\ rresult.cached
        /\ rresult = [rprev.result EXCEPT !.cached = TRUE]
        /\ nqueries = 0

\* C16 (as claimed): an envelope served from the cache was computed for the
\* date range that the request resolves to on the day it is made.
C16_CachedEnvelopeOfSameRange ==
    (rpc = "done" /\ rresult.type = "dict" /\ rresult.cached) =>
        LET range == get_date_range(req.period, req.start, req.end, rday)
        IN  /\ range.type = "range"
            /\ rresult.data = [start |-> range.start, end |-> range.end]

\* C20: for every period other than custom, what _get_date_range returned to
\* a report method is (start, today) with start = today - 0, 7, 30, 90, 365
\* days for day, week, month, quarter, year, whatever explicit dates the
\* request carries; so start <= end = today.
C20_FixedOffsets ==
    (rrange.type = "range" /\ req.period # "personalizado") =>
        /\ rrange.end = rday
        /\ rrange.start <= rrange.end
        /\ rrange.start = rday - (CASE req.period = "dia" -> 0
                                    [] req.period = "semana" -> 7
                                    [] req.period = "mes" -> 30
                                    [] req.period = "trimestre" -> 90
                                    [] req.period = "año" -> 365)

\* a monthly products report requested with explicit dates, on the second day
C20_Witness ==
    /\ rpc = "done"
    /\ req.report_type = "productos"
    /\ req.period = "mes"
    /\ req.start # NoDate
    /\ rday = FirstDay + 1
    /\ rrange = Range(FirstDay - 29, FirstDay + 1)
    /\ rresult.type = "dict"

\* C17: the counters are updated atomically: under concurrent callers no
\* update is lost, so every store that ends an update of failure_count,
\* errors or queries_executed moves the live counter by exactly one from the
\* value it has at that moment (the decrement stopping at zero).
C17_NoLostUpdate ==
    [][\A w \in Workers :
          /\ (pc[w] = "fail_write" /\ pc'[w] = "fail_open")
                => failure_count' = failure_count + 1
          /\ (pc[w] = "fail_open" /\ pc'[w] = "finally")
                => errors' = errors + 1
          /\ (pc[w] = "metrics" /\ pc'[w] = "success_test")
                => queries_executed' = queries_executed + 1
          /\ (pc[w] = "success_write" /\ pc'[w] = "finally")
                => failure_count' = success_store(failure_count - 1)]_vars

\* C21: a request with the custom period that lacks a bound, or whose start
\* is later than its end, fails validation: it is never constructed, so no
\* call of generate_report carries one and no query is executed for it.
C21_InvalidCustomRejected ==
    (rpc # "idle" /\ req.period = "personalizado")
        => /\ req.start # NoDate
           /\ req.end # NoDate
           /\ req.start <= req.end

\* A filter is present when it was given a value, 0 included.
Present(v) == v # None

\* C22: _apply_filters appends one predicate, AND-joined, for each filter
\* that is present in the request, a present value of 0 included, and
\* returns the values of the applied filters in the same order; without any
\* filter the query is returned unchanged with an empty parameter list.
C22_EveryPresentFilterApplied ==
    fret # None =>
        fret = IF ffilters = None
               THEN [query |-> fquery, params |-> <<>>]
               ELSE FiltersApplied(fquery, ffilters,
                        SelectSeq(FilterFields,
                                  LAMBDA fd : Present(ffilters[fd.name])))

\* C23: for every sequence of sales rows total_revenue is the sum of the
\* rows' totals, total_orders the sum of their order counts, and
\* average_ticket is total_revenue / total_orders when total_orders > 0 and
\* 0 otherwise, never a division by zero.
C23_SalesTotals ==
    sret # None =>
        LET n == Len(srows)
            Revenue[i \in 0..n] ==
                IF i = 0 THEN 0 ELSE Revenue[i - 1] + srows[i].total_ventas
            Orders[i \in 0..n] ==
                IF i = 0 THEN 0 ELSE Orders[i - 1] + srows[i].numero_pedidos
        IN  /\ sret.total_revenue = Revenue[n]
            /\ sret.total_orders = Orders[n]
            /\ sret.average_ticket.type = "float"
            /\ sret.average_ticket.den > 0
            /\ IF Orders[n] > 0
               THEN sret.average_ticket.num * Orders[n]
                        = Revenue[n] * sret.average_ticket.den
               ELSE sret.average_ticket.num = 0

\* Rows (100, 2) and (200, 3) give 300, 5 and 60.
C23_Witness ==
    /\ srows = << [total_ventas |-> 100, numero_pedidos |-> 2],
                  [total_ventas |-> 200, numero_pedidos |-> 3] >>
    /\ sret # None
    /\ sret.total_revenue = 300
    /\ sret.total_orders = 5
    /\ sret.average_ticket = [type |-> "float", num |-> 60, den |-> 1]

\* C24: generate_report of a report type without a generator (the hourly
\* sales) raises ValueError without any cache access or database query, and
\* a report type with a generator is handled by that generator alone: only
\* a sales call reaches the cache, only the summary skips the date range and
\* makes several queries, and an envelope carries the type requested.
C24_DispatchByType ==
    /\ [](rpc # "idle" =>
            /\ req.report_type = "ventas_horarias"
                  => /\ rpc = "done"
                     /\ rresult = Raise("ValueError")
                     /\ nqueries = 0
                     /\ rkey = NoKey
            /\ rpc \in {"cache_get", "mark", "cache_set"} => req.report_type = "ventas"
            /\ rkey # NoKey => req.report_type = "ventas"
            /\ rpc = "range" => req.report_type \in {"ventas", "productos", "clientes",
                                                     "revenue_categoria"}
            /\ rrange # NoRange => req.report_type # "resumen"
            /\ nqueries > 1 => req.report_type = "resumen"
            /\ rresult.type = "dict" => rresult.report_type = req.report_type)
    /\ [][(report_calls' # report_calls /\ req'.report_type = "ventas_horarias")
            => UNCHANGED cachevars]_vars

C24_Witness ==
    /\ rpc = "done"
    /\ req.report_type = "ventas_horarias"
    /\ rresult = Raise("ValueError")
    /\ rprev.result.type = "dict"
    /\ rprev.req.report_type = "ventas"

\* C25: transaction() keeps one connection for its whole scope, commits if
\* and only if the body completed without raising, otherwise rolls back
\* without committing and the caller receives the exception that was raised
\* in the scope (never another one in its place); the connection is released
\* in both cases.
C25_TransactionScope ==
    [][\A w \in Workers :
          op[w] = "transaction" =>
            /\ pc[w] \in {"body", "tx_end"}
                  => conn[w] # "none" /\ conn'[w] = conn[w]
            /\ (pc[w] = "tx_end" /\ pc'[w] # "tx_end")
                  => /\ tx'[w] = "commit" => exc[w] = "none"
                     /\ exc[w] # "none" => tx'[w] = "rollback"
                     /\ (exc[w] = "none" /\ exc'[w] = "none") => tx'[w] = "commit"
            /\ (pc[w] = "finally" /\ pc'[w] = "done")
                  => /\ conn'[w] = "none"
                     /\ tx[w] = "commit" => result'[w] = "ok"
                     /\ tx[w] = "rollback"
                           => result'[w] = (IF exc[w] = "db" THEN "DatabaseError"
                                            ELSE "OtherError")]_vars

\* C26: GET /api/reportes answers 500 with an 'error' field whenever the
\* database failed while the request was served, on obtaining the
\* connection or on executing one of the three queries; it never answers
\* 200 with data after a database failure.
C26_DatabaseFailureGives500 ==
    (lpc = "done" /\ lerrors > 0)
        => /\ lstatus = 500
           /\ "error" \in DOMAIN lbody

\* C27: a sales request with the custom period and an explicit range with
\* start <= end is resolved to that range, queried with it, and answered by
\* an envelope (cached = false on a miss) whenever the database call
\* succeeds: the call fails only when the database call fails, never on the
\* derivation of the cache key.
C27_CustomSalesAnswered ==
    (/\ rpc = "done"
     /\ req.report_type = "ventas"
     /\ req.period = "personalizado"
     /\ req.start # NoDate /\ req.end # NoDate /\ req.start <= req.end)
        => /\ rresult.type = "raise"
                => rresult.exc \in {"RuntimeError", "CircuitBreakerError"} /\ nqueries > 0
           /\ (rresult.type = "dict" /\ ~rresult.cached)
                => rrange = Range(req.start, req.end) /\ nqueries = 1

\* C28: every operation that consults the breaker evaluates the lazy
\* transition from open to probing: is_connected (alone or for the
\* 'connected' field of get_stats) called once more than circuit_timeout has
\* passed since the last failure goes on to the breaker check and the
\* engine, and is not answered False on the breaker flag alone.
C28_IsConnectedProbes ==
    [][\A w \in Workers :
          (/\ pc[w] = "is_connected"
           /\ pc'[w] # "is_connected"
           /\ since_failure # NoTime
           /\ since_failure > circuit_timeout)
            => /\ pc'[w] = "check"
               /\ result'[w] # "False"]_vars

\* C29: in a sequential execution with failure_threshold >= 1, between
\* operations the breaker flag and the counter agree: circuit_open is true
\* if and only if failure_count >= failure_threshold.
C29_FlagAgreesWithCounter ==
    (failure_threshold >= 1 /\ \A w \in Workers : pc[w] = "idle")
        => (circuit_open <=> failure_count >= failure_threshold)

\* the breaker open between two operations after failure_threshold failures
C29_Witness ==
    /\ \A w \in Workers : pc[w] = "idle"
    /\ failure_threshold = 2
    /\ circuit_open
    /\ failure_count = failure_threshold
    /\ since_failure # NoTime

\* C30: an envelope returned by get_sales_report is not altered by later
\* calls: what an earlier call returned stays as it was returned while a
\* later call is served (from the local map included), and serving a hit
\* leaves the entry of the local map as it was set.
C30_ReturnedEnvelopeUnaltered ==
    [][/\ report_calls' = report_calls => rprev'.result = rprev.result
       /\ rpc = "mark" => memory_cache' = memory_cache]_vars

====
